---- MODULE Spec2Model ----
(***************************************************************************)
(* A model of the react-movie application state:                          *)
(*   - MovieProvider (src/src/contexts/MovieContext.jsx): the favourites   *)
(*     list held in React state, its update queue, the two effects (load   *)
(*     on mount, persist on every change) and the localStorage slot;       *)
(*   - Home (src/src/pages/Home.jsx): searchQuery, movies, error, loading  *)
(*     and the catalog requests in flight.                                 *)
(* The two components share no state in the sources modelled here, so     *)
(* each has its own specification (SpecFav, SpecHome) over the same        *)
(* variables, the other component's variables left unchanged.              *)
(***************************************************************************)
EXTENDS Integers, Sequences, FiniteSets, TLC

VARIABLES
    favourites,     \* MovieProvider: the committed value of useState([])
    updateQueue,    \* MovieProvider: setFavourites calls not yet rendered
    effects,        \* MovieProvider: passive effects scheduled by the last commit
    localStorage,   \* the "favourites" slot: [present, text]
    crashed,        \* an error escaped an effect or a render (tree unmounted)
    slotAtStartup,  \* history: the slot as it was when this provider was created
    lastOp,         \* history: per identifier, the last add/remove call concerning it
    persisted,      \* history: the set that was in memory and on disk at the last reload
    searchQuery,    \* Home: useState("")
    movies,         \* Home: useState([])
    error,          \* Home: useState(null)
    loading,        \* Home: useState(true)
    inflight,       \* Home: catalog requests started and not yet settled
    nextReq,        \* history: sequence number of the next catalog request
    moviesFrom,     \* history: sequence number of the request whose result is in movies
    page,           \* the route currently rendered: "home" or "favourites"
    lastEvent       \* history: the handler or step that ran last

favVars == <<favourites, updateQueue, effects, localStorage, crashed,
             slotAtStartup, lastOp, persisted>>
homeVars == <<searchQuery, movies, error, loading, inflight, nextReq,
              moviesFrom, page>>
vars == <<favVars, homeVars, lastEvent>>

-----------------------------------------------------------------------------
(* Bounds *)
MaxFav == 3        \* longest favourites list explored
MaxQueue == 2      \* most setFavourites calls batched before a render
MaxStored == 2     \* longest list found in the slot at first startup
MaxQuery == 2      \* longest search text typed
MaxReq == 4        \* catalog requests started in one run

-----------------------------------------------------------------------------
(* Movie records and their JSON text *)

Dune == [id |-> 1, title |-> "Dune"]
Arrival == [id |-> 2, title |-> "Arrival"]
Movies == {Dune, Arrival}
MovieIds == {m.id : m \in Movies}
Titles == {m.title : m \in Movies}

IdTok == (1 :> "1") @@ (2 :> "2")
TokId(t) == CHOOSE i \in DOMAIN IdTok : IdTok[i] = t
IdToks == {IdTok[i] : i \in DOMAIN IdTok}

SeqsUpTo(S, n) == UNION {[1..k -> S] : k \in 0..n}

\* JSON.stringify of one movie record: the tokens of {"id":1,"title":"Dune"}
StringifyMovie(m) == <<"{", IdTok[m.id], m.title, "}">>

RECURSIVE StringifyElems(_)
StringifyElems(list) ==
    IF list = <<>> THEN <<>>
    ELSE IF Len(list) = 1 THEN StringifyMovie(list[1])
    ELSE StringifyMovie(list[1]) \o <<",">> \o StringifyElems(Tail(list))

\* JSON.stringify(favourites): the whole array, as a token sequence
JSONstringify(list) == <<"[">> \o StringifyElems(list) \o <<"]">>

ParseFail == [ok |-> FALSE, val |-> <<>>]

\* the elements of an array after its "[": object ("," object)* "]"
RECURSIVE ParseElems(_)
ParseElems(s) ==
    IF Len(s) >= 5 /\ s[1] = "{" /\ s[2] \in IdToks /\ s[3] \in Titles /\ s[4] = "}"
    THEN LET m == [id |-> TokId(s[2]), title |-> s[3]] IN
         IF s[5] = "]"
         THEN IF Len(s) = 5 THEN [ok |-> TRUE, val |-> <<m>>] ELSE ParseFail
         ELSE IF s[5] = ","
         THEN LET r == ParseElems(SubSeq(s, 6, Len(s))) IN
              IF r.ok THEN [ok |-> TRUE, val |-> <<m>> \o r.val] ELSE ParseFail
         ELSE ParseFail
    ELSE ParseFail

\* mutant of JSONparse: keeps the first element of the array only
JSONparseFirstOnly(s) ==
    IF s = <<"[", "]">> THEN [ok |-> TRUE, val |-> <<>>]
    ELSE IF Len(s) >= 1 /\ s[1] = "["
    THEN LET r == ParseElems(Tail(s)) IN
         IF r.ok THEN [ok |-> TRUE, val |-> <<Head(r.val)>>] ELSE ParseFail
    ELSE ParseFail

\* JSON.parse(storedFavs): ok = FALSE stands for the SyntaxError it throws
JSONparse(s) ==
    IF s = <<"[", "]">> THEN [ok |-> TRUE, val |-> <<>>]
    ELSE IF Len(s) >= 1 /\ s[1] = "[" THEN ParseElems(Tail(s))
    ELSE ParseFail

-----------------------------------------------------------------------------
(* localStorage *)

Absent == [present |-> FALSE, text |-> <<>>]
Slot(text) == [present |-> TRUE, text |-> text]

\* if (storedFavs): null and the empty string are falsy
Truthy(slot) == slot.present /\ slot.text # <<>>

NoDup(list) == \A i, j \in 1..Len(list) : list[i].id = list[j].id => i = j

WellFormedTexts == {JSONstringify(l) : l \in {x \in SeqsUpTo(Movies, MaxStored) : NoDup(x)}}
MalformedTexts == {<<"[">>, <<"[", "{", "1", "Dune", "}">>, <<"{", "1", "Dune", "}", "]">>}
InitialSlots == {Absent, Slot(<<>>)} \cup {Slot(t) : t \in WellFormedTexts \cup MalformedTexts}

-----------------------------------------------------------------------------
(* MovieProvider *)

SetUpdate(list) == [op |-> "set", value |-> list]
AddUpdate(movie) == [op |-> "add", movie |-> movie]
RemoveUpdate(movieId) == [op |-> "remove", movieId |-> movieId]

\* (prev) => [...prev, movie]
addUpdater(prev, movie) == Append(prev, movie)

\* mutant of removeUpdater: splices out the first match only
RECURSIVE removeFirstOnly(_, _)
removeFirstOnly(prev, movieId) ==
    IF prev = <<>> THEN <<>>
    ELSE IF Head(prev).id = movieId THEN Tail(prev)
    ELSE <<Head(prev)>> \o removeFirstOnly(Tail(prev), movieId)

\* (prev) => prev.filter((movie) => movie.id !== movieId)
removeUpdater(prev, movieId) == SelectSeq(prev, LAMBDA m : m.id # movieId)

ApplyUpdate(prev, u) ==
    CASE u.op = "set" -> u.value
      [] u.op = "add" -> addUpdater(prev, u.movie)
      [] u.op = "remove" -> removeUpdater(prev, u.movieId)

\* React applies the queued updates in the order they were enqueued
RECURSIVE ProcessQueue(_, _)
ProcessQueue(prev, queue) ==
    IF queue = <<>> THEN prev
    ELSE ProcessQueue(ApplyUpdate(prev, Head(queue)), Tail(queue))

\* favourites.some((movie) => movie.id === movieId)
isFavourites(movieId) == \E i \in 1..Len(favourites) : favourites[i].id = movieId

\* the load effect: what it enqueues, and whether JSON.parse threw
LoadEffect(slot) ==
    IF Truthy(slot)
    THEN LET r == JSONparse(slot.text) IN
         IF r.ok THEN [threw |-> FALSE, updates |-> <<SetUpdate(r.val)>>]
         ELSE [threw |-> TRUE, updates |-> <<>>]
    ELSE [threw |-> FALSE, updates |-> <<>>]

\* the persist effect: localStorage.setItem("favourites", JSON.stringify(favourites))
PersistEffect(list) == Slot(JSONstringify(list))

\* mutant of EffectsAfterRender: the persist effect declared with deps []
NoEffectsAfterRender == {}

\* the effects a commit schedules when favourites changed (deps [favourites])
EffectsAfterRender == {"persist"}

NoOps == [i \in MovieIds |-> "none"]
Unknown == [known |-> FALSE, set |-> <<>>]

\* the length favourites will have once the queued updates are rendered
PendingLen == Len(ProcessQueue(favourites, updateQueue))

InitFav ==
    /\ favourites = <<>>
    /\ updateQueue = <<>>
    /\ effects = {"load", "persist"}
    /\ localStorage \in InitialSlots
    /\ crashed = FALSE
    /\ slotAtStartup = localStorage
    /\ lastOp = NoOps
    /\ persisted = Unknown

\* the passive effects of the first commit, flushed together: load, then persist.
\* An effect that throws does not stop the effects after it; the error then
\* unmounts the tree (there is no error boundary).
MountEffects ==
    /\ effects = {"load", "persist"}
    /\ LET r == LoadEffect(localStorage) IN
         /\ updateQueue' = updateQueue \o r.updates
         /\ crashed' = r.threw
    /\ localStorage' = PersistEffect(favourites)
    /\ effects' = {}
    /\ UNCHANGED <<homeVars, lastEvent>>
    /\ UNCHANGED <<favourites, slotAtStartup, lastOp, persisted>>

\* a re-render: the queued updates are applied and the commit schedules the
\* persist effect, favourites being a new array
Render ==
    /\ ~crashed
    /\ effects = {}
    /\ updateQueue # <<>>
    /\ favourites' = ProcessQueue(favourites, updateQueue)
    /\ updateQueue' = <<>>
    /\ effects' = EffectsAfterRender
    /\ UNCHANGED <<homeVars, lastEvent>>
    /\ UNCHANGED <<localStorage, crashed, slotAtStartup, lastOp, persisted>>

\* the persist effect run after a re-render
PersistEffects ==
    /\ effects = {"persist"}
    /\ localStorage' = PersistEffect(favourites)
    /\ effects' = {}
    /\ UNCHANGED <<homeVars, lastEvent>>
    /\ UNCHANGED <<favourites, updateQueue, crashed, slotAtStartup, lastOp, persisted>>

addToFavourites(movie) ==
    /\ ~crashed
    /\ "load" \notin effects
    /\ Len(updateQueue) < MaxQueue
    /\ PendingLen < MaxFav
    /\ updateQueue' = Append(updateQueue, AddUpdate(movie))
    /\ lastOp' = [lastOp EXCEPT ![movie.id] = "add"]
    /\ UNCHANGED <<homeVars, lastEvent>>
    /\ UNCHANGED <<favourites, effects, localStorage, crashed, slotAtStartup, persisted>>

removeFromFavourites(movieId) ==
    /\ ~crashed
    /\ "load" \notin effects
    /\ Len(updateQueue) < MaxQueue
    /\ updateQueue' = Append(updateQueue, RemoveUpdate(movieId))
    /\ lastOp' = [lastOp EXCEPT ![movieId] = "remove"]
    /\ UNCHANGED <<homeVars, lastEvent>>
    /\ UNCHANGED <<favourites, effects, localStorage, crashed, slotAtStartup, persisted>>

\* the page is reloaded: a fresh MovieProvider over the same localStorage
Reload ==
    /\ favourites' = <<>>
    /\ updateQueue' = <<>>
    /\ effects' = {"load", "persist"}
    /\ crashed' = FALSE
    /\ slotAtStartup' = localStorage
    /\ lastOp' = NoOps
    /\ persisted' = IF ~crashed /\ updateQueue = <<>> /\ effects = {}
                    THEN [known |-> TRUE, set |-> favourites]
                    ELSE Unknown
    /\ UNCHANGED <<homeVars, lastEvent>>
    /\ UNCHANGED localStorage

NextFav ==
    \/ MountEffects
    \/ Render
    \/ PersistEffects
    \/ \E movie \in Movies : addToFavourites(movie)
    \/ \E movieId \in MovieIds : removeFromFavourites(movieId)
    \/ Reload

-----------------------------------------------------------------------------
(* Home *)

Chars == {" ", "d"}
Queries == SeqsUpTo(Chars, MaxQuery)

\* what the catalog can answer: any ordered list of movie records
Results == {<<>>, <<Dune>>, <<Arrival, Dune>>}

RECURSIVE trimStart(_)
trimStart(s) == IF s # <<>> /\ Head(s) = " " THEN trimStart(Tail(s)) ELSE s

RECURSIVE trimEnd(_)
trimEnd(s) ==
    IF s # <<>> /\ s[Len(s)] = " " THEN trimEnd(SubSeq(s, 1, Len(s) - 1)) ELSE s

\* mutant of trim: the query is tested untrimmed
noTrim(s) == s

\* searchQuery.trim()
trim(s) == trimEnd(trimStart(s))

Request(n, kind) == [req |-> n, kind |-> kind, live |-> TRUE]

\* the requests of the Home instance that is mounted now
Outstanding == {r \in inflight : r.live}

\* useState initial values, then the mount effect: loadPopularMovies() is
\* called and getPopularMovies() is in flight when the first event can arrive
InitHome ==
    /\ searchQuery = <<>>
    /\ movies = <<>>
    /\ error = "null"
    /\ loading = TRUE
    /\ inflight = {Request(1, "popular")}
    /\ nextReq = 2
    /\ moviesFrom = 0
    /\ page = "home"

\* onChange={(e) => setSearchQuery(e.target.value)}
setSearchQuery(value) ==
    /\ page = "home"
    /\ searchQuery' = value
    /\ lastEvent' = "setSearchQuery"
    /\ UNCHANGED <<movies, error, loading, inflight, nextReq, moviesFrom, page, favVars>>

\* mutant of handleSearch: without "if (loading) return"
handleSearchNoLoadingGuard ==
    /\ page = "home"
    /\ lastEvent' = "handleSearch"
    /\ IF trim(searchQuery) = <<>>
       THEN UNCHANGED <<loading, inflight, nextReq>>
       ELSE /\ nextReq <= MaxReq
            /\ loading' = TRUE
            /\ inflight' = inflight \cup {Request(nextReq, "search")}
            /\ nextReq' = nextReq + 1
    /\ UNCHANGED <<searchQuery, movies, error, moviesFrom, page, favVars>>

\* onSubmit={handleSearch}, up to its await
handleSearch ==
    /\ page = "home"
    /\ lastEvent' = "handleSearch"
    /\ IF trim(searchQuery) = <<>> \/ loading
       THEN UNCHANGED <<loading, inflight, nextReq>>
       ELSE /\ nextReq <= MaxReq
            /\ loading' = TRUE
            /\ inflight' = inflight \cup {Request(nextReq, "search")}
            /\ nextReq' = nextReq + 1
    /\ UNCHANGED <<searchQuery, movies, error, moviesFrom, page, favVars>>

\* await getPopularMovies() resolves: setMovies, then finally setLoading(false)
resolvePopular(r, result) ==
    /\ movies' = result
    /\ moviesFrom' = r.req
    /\ loading' = FALSE
    /\ UNCHANGED error

\* await getPopularMovies() rejects: catch, then finally
rejectPopular(r) ==
    /\ error' = "Failed to load movies..."
    /\ loading' = FALSE
    /\ UNCHANGED <<movies, moviesFrom>>

\* await searchMovies(searchQuery) resolves: setMovies, setError(null), finally
resolveSearch(r, result) ==
    /\ movies' = result
    /\ moviesFrom' = r.req
    /\ error' = "null"
    /\ loading' = FALSE

\* mutant of rejectSearch: no finally block
rejectSearchNoFinally(r) ==
    /\ error' = "Failed to search Movies..."
    /\ UNCHANGED <<loading, movies, moviesFrom>>

\* mutant of rejectSearch: the catch block also empties the list
rejectSearchClears(r) ==
    /\ error' = "Failed to search Movies..."
    /\ movies' = <<>>
    /\ loading' = FALSE
    /\ UNCHANGED moviesFrom

\* await searchMovies(searchQuery) rejects: catch, then finally
rejectSearch(r) ==
    /\ error' = "Failed to search Movies..."
    /\ loading' = FALSE
    /\ UNCHANGED <<movies, moviesFrom>>

Resolve(r, result) ==
    /\ r \in Outstanding
    /\ inflight' = inflight \ {r}
    /\ IF r.kind = "popular" THEN resolvePopular(r, result) ELSE resolveSearch(r, result)
    /\ lastEvent' = IF r.kind = "popular" THEN "resolvePopular" ELSE "resolveSearch"
    /\ UNCHANGED <<searchQuery, nextReq, page, favVars>>

Reject(r) ==
    /\ r \in Outstanding
    /\ inflight' = inflight \ {r}
    /\ IF r.kind = "popular" THEN rejectPopular(r) ELSE rejectSearch(r)
    /\ lastEvent' = IF r.kind = "popular" THEN "rejectPopular" ELSE "rejectSearch"
    /\ UNCHANGED <<searchQuery, nextReq, page, favVars>>

\* a request of an unmounted Home settles: its setState calls change nothing
SettleUnmounted(r) ==
    /\ r \in inflight \ Outstanding
    /\ inflight' = inflight \ {r}
    /\ lastEvent' = "SettleUnmounted"
    /\ UNCHANGED <<searchQuery, movies, error, loading, nextReq, moviesFrom, page, favVars>>

\* the route changes to /favourites: Home is unmounted, its requests go on
LeaveHome ==
    /\ page = "home"
    /\ page' = "favourites"
    /\ inflight' = {[r EXCEPT !.live = FALSE] : r \in inflight}
    /\ lastEvent' = "LeaveHome"
    /\ UNCHANGED <<searchQuery, movies, error, loading, nextReq, moviesFrom, favVars>>

\* the route changes back to /: a new Home instance is mounted
MountHome ==
    /\ page = "favourites"
    /\ nextReq <= MaxReq
    /\ page' = "home"
    /\ searchQuery' = <<>>
    /\ movies' = <<>>
    /\ error' = "null"
    /\ loading' = TRUE
    /\ inflight' = inflight \cup {Request(nextReq, "popular")}
    /\ nextReq' = nextReq + 1
    /\ moviesFrom' = 0
    /\ lastEvent' = "MountHome"
    /\ UNCHANGED favVars

NextHome ==
    \/ \E value \in Queries : setSearchQuery(value)
    \/ handleSearch
    \/ \E r \in inflight, result \in Results : Resolve(r, result)
    \/ \E r \in inflight : Reject(r)
    \/ \E r \in inflight : SettleUnmounted(r)
    \/ LeaveHome
    \/ MountHome

-----------------------------------------------------------------------------
(* Specifications *)

Init == InitFav /\ InitHome /\ lastEvent = "init"

\* the provider, under a Home that is left alone
SpecFav == Init /\ [][NextFav]_vars

\* Home, under a provider that is left alone (started on an absent slot)
InitAbsent == Init /\ localStorage = Absent

SpecHome == InitAbsent /\ [][NextHome]_vars

Next == NextFav \/ NextHome

Spec == Init /\ [][Next]_vars

-----------------------------------------------------------------------------
(* Properties of the favourites store *)

Settled == updateQueue = <<>> /\ effects = {}

StartedEmpty == ~Truthy(slotAtStartup) \/ slotAtStartup = Slot(JSONstringify(<<>>))

\* C1: in every reachable state a movie identifier appears at most once in
\* favourites (adding a movie whose id is present inserts no second entry).
C1_IdentifierAtMostOnce == NoDup(favourites)

\* C2: starting from the empty set, once the queued calls are rendered,
\* isFavourites(id) is true exactly when the last add/remove call concerning
\* id was an add, however many times id was added before.
C2_NetMembership ==
    (StartedEmpty /\ ~crashed /\ "load" \notin effects /\ updateQueue = <<>>)
        => \A id \in MovieIds : isFavourites(id) <=> lastOp[id] = "add"

\* id 1 was added twice and is in the list twice, id 2 was added and removed
C2_Witness ==
    /\ StartedEmpty /\ ~crashed /\ updateQueue = <<>> /\ effects = {}
    /\ favourites = <<Dune, Dune>>
    /\ lastOp[2] = "remove"

\* C3: whenever no render and no persist effect is pending, the slot holds
\* the serialization of the whole in-memory list.
C3_SlotMirrorsFavourites ==
    Settled => localStorage = Slot(JSONstringify(favourites))

\* after an add and a remove, the slot holds the one movie left
C3_Witness ==
    /\ Settled
    /\ lastOp[1] = "add" /\ lastOp[2] = "remove"
    /\ favourites = <<Dune>>
    /\ slotAtStartup = Slot(JSONstringify(<<Arrival>>))
    /\ localStorage = Slot(<<"[", "{", "1", "Dune", "}", "]">>)

\* C4: a list that was in memory and in the slot when the page was reloaded is
\* the list the fresh provider holds, in the same order, once its mount
\* effects and the re-render they cause are done; the slot holds it still.
C4_RoundTrip ==
    (persisted.known /\ lastOp = NoOps /\ Settled)
        => /\ ~crashed
           /\ favourites = persisted.set
           /\ localStorage = Slot(JSONstringify(persisted.set))

\* a two-element list came back after a reload
C4_Witness ==
    /\ persisted.known /\ lastOp = NoOps /\ Settled
    /\ persisted.set = <<Arrival, Dune>>
    /\ favourites = <<Arrival, Dune>>

\* the slot held a non-empty list of movies when the provider was created
StartedWithList ==
    /\ Truthy(slotAtStartup)
    /\ JSONparse(slotAtStartup.text).ok
    /\ JSONparse(slotAtStartup.text).val # <<>>

\* C5: as long as no add/remove was called since startup, a slot that held a
\* non-empty list before startup holds that list: initialization never
\* writes another value over it, the empty list included, even transiently.
C5_InitNeverRewritesSlot ==
    (lastOp = NoOps /\ StartedWithList) => localStorage = slotAtStartup

\* C6: no error escapes initialization, and once it is done the list is the
\* parsed slot if the slot is present and well formed, else empty.
C6_InitializeTolerant ==
    /\ ~crashed
    /\ (lastOp = NoOps /\ Settled) =>
          favourites = IF Truthy(slotAtStartup) /\ JSONparse(slotAtStartup.text).ok
                       THEN JSONparse(slotAtStartup.text).val
                       ELSE <<>>

-----------------------------------------------------------------------------
(* Properties of Home *)

\* C7: while Home is mounted, loading is true exactly when one of its catalog
\* requests is started and not settled.
C7_LoadingIffOutstanding == page = "home" => (loading <=> Outstanding # {})

\* a search is in flight after an earlier search failed
C7_Witness ==
    /\ page = "home" /\ loading
    /\ error = "Failed to search Movies..."
    /\ \E r \in Outstanding : r.kind = "search"

\* the text is empty or made of spaces only
Blank(s) == \A i \in 1..Len(s) : s[i] = " "

\* C8: a submission with an empty or whitespace-only query, or made while
\* loading is true, starts no request and leaves loading, movies and error
\* as they were.
C8_IgnoredSubmission ==
    [][(lastEvent' = "handleSearch" /\ (Blank(searchQuery) \/ loading))
          => UNCHANGED <<loading, movies, error, inflight, nextReq>>]_vars

\* a whitespace-only query was submitted at rest
C8_Witness ==
    /\ lastEvent = "handleSearch"
    /\ searchQuery = <<" ", " ">>
    /\ ~loading /\ inflight = {} /\ movies = <<Dune>>

\* C9: a rejected catalog call sets error to the message of its operation,
\* leaves movies as it was and leaves loading false.
C9_RejectKeepsMovies ==
    [][/\ lastEvent' = "rejectPopular" =>
            error' = "Failed to load movies..." /\ movies' = movies /\ ~loading'
       /\ lastEvent' = "rejectSearch" =>
            error' = "Failed to search Movies..." /\ movies' = movies /\ ~loading'
      ]_vars

\* a search was rejected over a list fetched earlier
C9_Witness ==
    /\ lastEvent = "rejectSearch"
    /\ movies = <<Arrival, Dune>>
    /\ error = "Failed to search Movies..."
    /\ ~loading

\* C10: a mounted Home has at most one request outstanding, and a request
\* outstanding was started after the one whose result movies holds.
C10_AtMostOneOutstanding ==
    page = "home" =>
        /\ Cardinality(Outstanding) <= 1
        /\ \A r \in Outstanding : r.req > moviesFrom

\* a second search is in flight over the result of the first
C10_Witness ==
    /\ page = "home"
    /\ moviesFrom = 2
    /\ \E r \in Outstanding : r.kind = "search" /\ r.req = 3

====
